---- MODULE Spec2Model ----
(***************************************************************************)
(* The hash miner of src/index.ts: a coordinator (main thread) that owns   *)
(* the chain pointer `lastBlock`, the ledger file and the submission call, *)
(* and a pool of worker threads that scan nonces and post UPDATE messages. *)
(*                                                                         *)
(* SHA-256 is modelled as a collision-free oracle: a digest is the         *)
(* sequence of the hash characters of the text that was hashed (the chain  *)
(* of nonces from the starting hash), and a nonce character <<w, d>> names *)
(* "a nonce drawn by worker w whose digest has d leading zero bits".       *)
(***************************************************************************)
EXTENDS Integers, Sequences, FiniteSets

\* ---------------------------------------------------------------- bounds
\* --threads (argv.threads): the spawn loop starts workers 1..THREAD_COUNT-1.
ThreadCount == 3
\* Largest leading-zero count the digest oracle produces.
MaxDifficulty == 3
\* Cap on the UPDATE messages the pool posts in one run.
MaxUpdates == 2

\* ------------------------------------------------------ program constants
\* default of --max-difficulty; any number above every difficulty.
Infinity == 1000

\* -------------------------------------------------------------- helpers
Max(a, b) == IF a > b THEN a ELSE b

Last(s) == s[Len(s)]

\* Math.max(1, argv.threads)
THREAD_COUNT == Max(1, ThreadCount)

\* for (let i = 1; i < THREAD_COUNT; i++): the worker ids of the pool.
WorkerIds == 1..(THREAD_COUNT - 1)

\* Texts (hashes, pseudonyms, nonces, ledger lines) are sequences of
\* characters.  The characters of hashes and of drawn nonces are the pairs
\* <<w, d>>; a pseudonym's characters are not hash characters.

\* argv.pseudonym
Pseudonym == << <<"alice">> >>

\* null (lastBlock.previous before any block) and "" (lastBlock.nonce).
Null == <<>>
EmptyNonce == <<>>

\* argv.hash: the starting hashes tried, with 0 and 1 leading zero bits.
StartHashes == {<<<<0, 0>>>>, <<<<0, 1>>>>}

\* The values of --max-difficulty tried.
Ceilings == {2, 3, Infinity}

\* nanoid(): the nonces worker w can draw, each of one character <<w, d>>;
\* d is the number of leading zero bits of the digest of a text ending in it.
Nonces(w) == {<< <<w, d>> >> : d \in 0..MaxDifficulty}

\* String.prototype.indexOf(sep) for a non-empty string sep, counted from 1:
\* the first position where sep occurs in s, 0 when it does not occur.
IndexOfString(s, sep) ==
    LET occurs(p) == SubSeq(s, p, p + Len(sep) - 1) = sep
        starts == {p \in 1..(Len(s) - Len(sep) + 1) : occurs(p)}
    IN  IF starts = {} THEN 0
        ELSE CHOOSE p \in starts : \A q \in starts : p <= q

\* String.prototype.split(sep) for a non-empty string sep: the pieces of s
\* between the occurrences of sep, found from left to right.
RECURSIVE Split(_, _)
Split(s, sep) ==
    LET p == IndexOfString(s, sep) IN
    IF p = 0 THEN <<s>>
    ELSE <<SubSeq(s, 1, p - 1)>>
            \o Split(SubSeq(s, p + Len(sep), Len(s)), sep)

\* `${block.previous}${block.pseudonym}${block.nonce}`, character by
\* character.
LineText(previous, pseudonym, nonce) == previous \o pseudonym \o nonce

\* const raw = `${previousHash ?? ''}${pseudonym}${nonce}`: the text the
\* worker hashes.
Raw(previous, pseudonym, nonce) == previous \o pseudonym \o nonce

\* A character of the hexadecimal alphabet of digests.
IsHashChar(c) == \A i \in 1..Len(Pseudonym) : c # Pseudonym[i]

\* new Bun.CryptoHasher("sha256").update(raw).digest("hex"): a digest that
\* differs for the different texts hashed, named by the text's hash
\* characters.
Sha256(raw) == SelectSeq(raw, IsHashChar)

\* BigInt("0x" + sha).toString(2).padStart(256, "0").indexOf("1")
LeadingZeros(sha) == sha[Len(sha)][2]

\* The Block a worker posts.
MakeBlock(previous, pseudonym, nonce) ==
    LET sha == Sha256(Raw(previous, pseudonym, nonce))
    IN  [previous |-> previous, pseudonym |-> pseudonym, nonce |-> nonce,
         sha256 |-> sha, difficulty |-> LeadingZeros(sha)]

\* update_log(`${block.previous}${block.pseudonym}${block.nonce}`)
BlockLine(block) == LineText(block.previous, block.pseudonym, block.nonce)

Outcomes == {"Accepted", "Rejected", "TransportError"}

VARIABLES
    maxDifficulty,   \* argv['max-difficulty']
    startHash,       \* argv.hash
    lastBlock,       \* the coordinator's pointer
    blockCount,      \* the coordinator's block counter
    ledger,          \* the lines of miner-PSEUDONYM-submission.log
    previousHash,    \* worker-local: previousHash[w]
    bestDifficulty,  \* worker-local: bestDifficulty[w]
    workerStatus,    \* "running" | "errored"
    toMain,          \* toMain[w]: messages posted by worker w, not yet handled
    toWorker,        \* toWorker[w]: messages posted to worker w, not yet received
    inflight,        \* blocks whose fetch() has not returned, in call order
    reading,         \* blocks whose response.text() has not resolved
    resuming,        \* <<block, outcome>>: addBlock has settled, the handler
                     \* awaiting it has not resumed yet
    returned,        \* history: <<block, outcome>> of every addBlock that settled
    exited,          \* process.exit(0) was called
    fnInput,         \* the arguments of the function under evaluation
    fnOutput         \* <<its result>> (<<>> before it is evaluated)

vars == <<maxDifficulty, startHash, lastBlock, blockCount, ledger, previousHash,
          bestDifficulty, workerStatus, toMain, toWorker, inflight, reading,
          resuming, returned, exited, fnInput, fnOutput>>

\* The miner's own state, and the state of a function evaluated on its own.
minerVars == <<maxDifficulty, startHash, lastBlock, blockCount, ledger,
               previousHash,
               bestDifficulty, workerStatus, toMain, toWorker, inflight,
               reading, resuming, returned, exited>>
fnVars == <<fnInput, fnOutput>>

\* ------------------------------------------------------------------ Init
\* Main-thread start-up with no ledger file: lastBlock from argv.hash, the
\* file created with the pseudonym line, every worker started with
\* previous = argv.hash and difficulty = startingDifficulty.
Init ==
    \E hash \in StartHashes, ceiling \in Ceilings :
        LET startingDifficulty == LeadingZeros(hash) + 1 IN
        /\ maxDifficulty = ceiling
        /\ startHash = hash
        /\ lastBlock = [previous |-> Null, difficulty |-> LeadingZeros(hash),
                        nonce |-> EmptyNonce, sha256 |-> hash,
                        pseudonym |-> Pseudonym]
        /\ blockCount = 0
        /\ ledger = <<Pseudonym>>
        /\ previousHash = [w \in WorkerIds |-> hash]
        /\ bestDifficulty = [w \in WorkerIds |-> startingDifficulty]
        /\ workerStatus = [w \in WorkerIds |-> "running"]
        /\ toMain = [w \in WorkerIds |-> <<>>]
        /\ toWorker = [w \in WorkerIds |-> <<>>]
        /\ inflight = <<>>
        /\ reading = <<>>
        /\ resuming = <<>>
        /\ returned = <<>>
        /\ exited = FALSE
        /\ fnInput = Null
        /\ fnOutput = <<>>

\* ---------------------------------------------------------------- worker
\* A worker appends one nonce to its previousHash (argv.hash at its start)
\* per UPDATE it posts, so the UPDATE messages posted so far are counted from
\* the chains' lengths.
RECURSIVE PostedBy(_)
PostedBy(S) == IF S = {} THEN 0
               ELSE LET w == CHOOSE x \in S : TRUE
                    IN  (Len(previousHash[w]) - Len(startHash)) + PostedBy(S \ {w})
UpdatesPosted == PostedBy(WorkerIds)

\* Mutant of Improves: a candidate that ties the local best is reported too.
ImprovesOrTies(w, block) == block.difficulty >= bestDifficulty[w]

\* if (difficulty > bestDifficulty)
Improves(w, block) == block.difficulty > bestDifficulty[w]

\* Mutant of LoopCondition: the loop ends once the ceiling is reached.
LoopUntilCeiling(w) == bestDifficulty[w] < maxDifficulty

\* while (true)
LoopCondition(w) == TRUE

\* One iteration of the worker's while (true) loop with the nonce drawn.
WorkerScan(w, nonce) ==
    /\ ~exited
    /\ workerStatus[w] = "running"
    /\ LoopCondition(w)
    /\ UpdatesPosted < MaxUpdates
    /\ LET block == MakeBlock(previousHash[w], Pseudonym, nonce) IN
       IF Improves(w, block)
       THEN /\ toMain' = [toMain EXCEPT ![w] = Append(@, block)]
            /\ previousHash' = [previousHash EXCEPT ![w] = block.sha256]
            /\ bestDifficulty' = [bestDifficulty EXCEPT ![w] = block.difficulty]
       ELSE UNCHANGED <<toMain, previousHash, bestDifficulty>>
    /\ UNCHANGED <<maxDifficulty, startHash, lastBlock, blockCount, ledger, workerStatus,
                   toWorker, inflight, reading, resuming, returned, exited,
                   fnVars>>

\* The worker thread throws: the main thread's "error" listener logs it.
WorkerError(w) ==
    /\ ~exited
    /\ workerStatus[w] = "running"
    /\ workerStatus' = [workerStatus EXCEPT ![w] = "errored"]
    /\ UNCHANGED <<maxDifficulty, startHash, lastBlock, blockCount, ledger, previousHash,
                   bestDifficulty, toMain, toWorker, inflight, reading,
                   resuming, returned, exited, fnVars>>

\* ----------------------------------------------------------- coordinator
\* if (block.difficulty > lastBlock.difficulty)
Qualifies(block) == block.difficulty > lastBlock.difficulty

\* worker.on("message") for an UPDATE, up to the await of fetch() in addBlock.
\* A message is handled in a task of its own: the handlers resumed by settled
\* promises (microtasks) have all run before it.
ReceiveUpdate(w) ==
    /\ ~exited
    /\ resuming = <<>>
    /\ toMain[w] # <<>>
    /\ LET block == Head(toMain[w]) IN
       /\ toMain' = [toMain EXCEPT ![w] = Tail(@)]
       /\ inflight' = IF Qualifies(block) THEN Append(inflight, block)
                      ELSE inflight
    /\ UNCHANGED <<maxDifficulty, startHash, lastBlock, blockCount, ledger, previousHash,
                   bestDifficulty, workerStatus, toWorker, reading, resuming,
                   returned, exited, fnVars>>

\* Mutant of IsAccepted: only the transport/HTTP failure is told apart.
IsAcceptedUnlessTransportError(outcome) == outcome # "TransportError"

\* response.ok and data.includes("Congratulations")
IsAccepted(outcome) == outcome = "Accepted"

\* Mutant of Broadcast: the worker that found the block is left out.
BroadcastToOthers(block) ==
    [w \in WorkerIds |-> IF w = block.nonce[1][1] THEN toWorker[w]
                         ELSE Append(toWorker[w], block)]

\* workers.map((worker) => worker.postMessage({ type: "BLOCK-UPDATE", block }))
Broadcast(block) == [w \in WorkerIds |-> Append(toWorker[w], block)]

\* Mutant of ShouldExit: the ceiling test made against the pointer.
ShouldExitAgainstPointer(block) == block.difficulty >= lastBlock.difficulty

\* if (block.difficulty >= argv['max-difficulty']) process.exit(0)
ShouldExit(block) == block.difficulty >= maxDifficulty

RemoveAt(s, i) == [j \in 1..(Len(s) - 1) |-> IF j < i THEN s[j] ELSE s[j + 1]]

\* addBlock settles for `block` with `outcome` (its try block has ended or
\* its catch has run): the handler awaiting it is resumed in a later job.
Settle(block, outcome) ==
    /\ returned' = Append(returned, <<block, outcome>>)
    /\ resuming' = Append(resuming, <<block, outcome>>)

\* The fetch() of the i-th outstanding submission returns.  `ok` is whether
\* it resolved with response.ok: then addBlock awaits response.text();
\* otherwise fetch() rejected or addBlock throws the HTTP error, and the
\* catch logs it.
FetchReturn(i, ok) ==
    /\ ~exited
    /\ i \in 1..Len(inflight)
    /\ LET block == inflight[i] IN
       /\ inflight' = RemoveAt(inflight, i)
       /\ IF ok
          THEN /\ reading' = Append(reading, block)
               /\ UNCHANGED <<returned, resuming>>
          ELSE /\ Settle(block, "TransportError")
               /\ UNCHANGED reading
    /\ UNCHANGED <<maxDifficulty, startHash, lastBlock, blockCount, ledger,
                   previousHash, bestDifficulty, workerStatus, toMain,
                   toWorker, exited, fnVars>>

\* response.text() of the i-th response settles: the rest of addBlock, on
\* "Congratulations" the pointer, the ledger line and the broadcast.
ReadBody(i, outcome) ==
    /\ ~exited
    /\ i \in 1..Len(reading)
    /\ LET block == reading[i] IN
       /\ reading' = RemoveAt(reading, i)
       /\ Settle(block, outcome)
       /\ IF IsAccepted(outcome)
          THEN /\ lastBlock' = block
               /\ ledger' = Append(ledger, BlockLine(block))
               /\ toWorker' = Broadcast(block)
          ELSE UNCHANGED <<lastBlock, ledger, toWorker>>
    /\ UNCHANGED <<maxDifficulty, startHash, blockCount, previousHash,
                   bestDifficulty, workerStatus, toMain, inflight, exited,
                   fnVars>>

\* The order in which the handlers awaiting addBlock resume: in the order
\* addBlock settled, except that a handler whose addBlock returned undefined
\* (not accepted) resumes before the handlers whose addBlock returned
\* Promise.all(...) (accepted), which take further promise jobs to resolve.
ResumesFirst(settled, i) ==
    \/ i = 1
    \/ /\ ~IsAccepted(settled[i][2])
       /\ \A j \in 1..(i - 1) : IsAccepted(settled[j][2])

ResumesNext(i) == ResumesFirst(resuming, i)

\* The message handler resumes after await addBlock(block): blockCount++ and
\* the ceiling test.
ResumeHandler(i) ==
    /\ ~exited
    /\ i \in 1..Len(resuming)
    /\ ResumesNext(i)
    /\ LET block == resuming[i][1] IN
       /\ resuming' = RemoveAt(resuming, i)
       /\ blockCount' = blockCount + 1
       /\ exited' = ShouldExit(block)
    /\ UNCHANGED <<maxDifficulty, startHash, lastBlock, ledger, previousHash,
                   bestDifficulty, workerStatus, toMain, toWorker, inflight,
                   reading, returned, fnVars>>

Next ==
    \/ \E w \in WorkerIds : \E nonce \in Nonces(w) : WorkerScan(w, nonce)
    \/ \E w \in WorkerIds : WorkerError(w)
    \/ \E w \in WorkerIds : ReceiveUpdate(w)
    \/ \E i \in 1..MaxUpdates : \E ok \in BOOLEAN : FetchReturn(i, ok)
    \/ \E i \in 1..MaxUpdates : \E outcome \in Outcomes : ReadBody(i, outcome)
    \/ \E i \in 1..MaxUpdates : ResumeHandler(i)

Spec == Init /\ [][Next]_vars

\* Worker threads run, the main thread's event loop handles every message
\* posted to it and resumes every handler, and every fetch() and every
\* response.text() settles.
FairSpec ==
    /\ Spec
    /\ \A w \in WorkerIds :
          /\ WF_vars(\E nonce \in Nonces(w) : WorkerScan(w, nonce))
          /\ WF_vars(ReceiveUpdate(w))
    /\ WF_vars(\E i \in 1..MaxUpdates : \E ok \in BOOLEAN : FetchReturn(i, ok))
    /\ WF_vars(\E i \in 1..MaxUpdates : \E outcome \in Outcomes :
                  ReadBody(i, outcome))
    /\ WF_vars(\E i \in 1..MaxUpdates : ResumeHandler(i))

\* ------------------------------------------------- start-up with a ledger
\* The nonces of the last recorded line: one without the pseudonym, and
\* nonces that hold the pseudonym in the middle, at the start and at the end
\* (nanoid's alphabet has the pseudonym's letters).
RecordedNonces ==
    LET x == <<2, 3>> IN
    {<<x>>, <<x, x>> \o Pseudonym \o <<x, x>>, Pseudonym \o <<x, x>>,
     <<x, x>> \o Pseudonym}

\* readFileSync(FILE_NAME, 'utf-8').split('\n').filter(...): the lines of a
\* ledger file earlier runs wrote, the pseudonym line and one line per block
\* (one block, or two with the second nonce from RecordedNonces).
RecordedFiles ==
    LET line1 == LineText(<<<<0, 0>>>>, Pseudonym, <<<<1, 2>>>>) IN
    {<<Pseudonym, line1>>}
        \cup {<<Pseudonym, line1, LineText(Sha256(line1), Pseudonym, nonce)>> :
                 nonce \in RecordedNonces}

\* lastLine.split(argv.pseudonym)[1]
LastNonce(lastLine) == Split(lastLine, Pseudonym)[2]

\* Main-thread start-up when the ledger file exists: lastBlock is built from
\* argv.hash as before, then its nonce, its previous and blockCount are read
\* from the file; every worker is started with previous = argv.hash.
ResumeInit ==
    \E data \in RecordedFiles, ceiling \in Ceilings :
    \E hash \in StartHashes \cup {Sha256(Last(data))} :
        LET startingDifficulty == LeadingZeros(hash) + 1 IN
        /\ maxDifficulty = ceiling
        /\ startHash = hash
        /\ lastBlock = [previous |-> data[Len(data) - 1],
                        difficulty |-> LeadingZeros(hash),
                        nonce |-> LastNonce(data[Len(data)]),
                        sha256 |-> hash,
                        pseudonym |-> Pseudonym]
        /\ blockCount = Len(data) - 1
        /\ ledger = data
        /\ previousHash = [w \in WorkerIds |-> hash]
        /\ bestDifficulty = [w \in WorkerIds |-> startingDifficulty]
        /\ workerStatus = [w \in WorkerIds |-> "running"]
        /\ toMain = [w \in WorkerIds |-> <<>>]
        /\ toWorker = [w \in WorkerIds |-> <<>>]
        /\ inflight = <<>>
        /\ reading = <<>>
        /\ resuming = <<>>
        /\ returned = <<>>
        /\ exited = FALSE
        /\ fnInput = Null
        /\ fnOutput = <<>>

ResumeSpec == ResumeInit /\ [][Next]_vars

\* ======================================================================
\* The functions of the miner, evaluated on their own
\* ======================================================================
\* No miner process: the miner's variables while a function is evaluated.
NoProcess ==
    /\ maxDifficulty = Infinity
    /\ startHash = Null
    /\ lastBlock = Null
    /\ blockCount = 0
    /\ ledger = <<>>
    /\ previousHash = [w \in WorkerIds |-> Null]
    /\ bestDifficulty = [w \in WorkerIds |-> 0]
    /\ workerStatus = [w \in WorkerIds |-> "errored"]
    /\ toMain = [w \in WorkerIds |-> <<>>]
    /\ toWorker = [w \in WorkerIds |-> <<>>]
    /\ inflight = <<>>
    /\ reading = <<>>
    /\ resuming = <<>>
    /\ returned = <<>>
    /\ exited = TRUE

\* ------------------------------------------------- difficulty of a digest
\* padStart(256, "0"): the bit width of the digest.
W == 256

\* A SHA-256 digest in hex: W / 4 hex digits, each a number 0..15.
HexLen == W \div 4

\* The four bits of a hex digit, most significant first.
HexDigitBits(d) == <<d \div 8, (d \div 4) % 2, (d \div 2) % 2, d % 2>>

\* The bits of a hex string, most significant first.
RECURSIVE HexToBits(_)
HexToBits(hex) ==
    IF hex = <<>> THEN <<>>
    ELSE HexDigitBits(Head(hex)) \o HexToBits(Tail(hex))

\* The first index (from 1) of `c` in s, 0 when s does not contain it.
FirstIndex(s, c) ==
    IF \E i \in 1..Len(s) : s[i] = c
    THEN CHOOSE i \in 1..Len(s) :
            s[i] = c /\ \A j \in 1..(i - 1) : s[j] # c
    ELSE 0

\* BigInt("0x" + sha).toString(2): the binary numeral of the digest's
\* value, which has no leading zeros ("0" for the value zero).
BigIntToString2(sha) ==
    LET bits == HexToBits(sha)
        first == FirstIndex(bits, 1)
    IN  IF first = 0 THEN <<0>> ELSE SubSeq(bits, first, Len(bits))

\* String.prototype.padStart(n, c)
PadStart(s, n, c) ==
    IF Len(s) >= n THEN s
    ELSE [i \in 1..n |-> IF i <= n - Len(s) THEN c ELSE s[i - (n - Len(s))]]

\* String.prototype.indexOf(c): 0-based, -1 when absent.
IndexOf(s, c) == FirstIndex(s, c) - 1

\* BigInt("0x" + sha).toString(2).padStart(256, "0").indexOf("1"), as the
\* worker scores a candidate and the coordinator scores argv.hash.
DigestDifficulty(sha) == IndexOf(PadStart(BigIntToString2(sha), W, 0), 1)

\* The digest with k leading zero hex digits, then digit d, then digits t.
HexDigest(k, d, t) ==
    [i \in 1..HexLen |-> IF i <= k THEN 0 ELSE IF i = k + 1 THEN d ELSE t]

\* The digests scored: every position and value of the first non-zero hex
\* digit, followed by all-zero or all-one bits, and the all-zero digest.
Digests ==
    {HexDigest(k, d, t) : k \in 0..(HexLen - 1), d \in 1..15, t \in {0, 15}}
        \cup {HexDigest(HexLen, 0, 0)}

HashInit ==
    /\ NoProcess
    /\ fnInput \in [sha : Digests]
    /\ fnOutput = <<>>

\* const difficulty = bin.indexOf("1")
ScoreDigest ==
    /\ fnOutput = <<>>
    /\ fnOutput' = <<DigestDifficulty(fnInput.sha)>>
    /\ UNCHANGED <<fnInput, minerVars>>

HashNext == ScoreDigest

HashSpec == HashInit /\ [][HashNext]_vars

\* ------------------------------------------------ the sequential strategy
\* Largest --threads and number of loop iterations of the sequential worker.
MaxSeqThreads == 15
MaxIteration == 21

\* Number.prototype.toString(): the decimal digits of a natural number.
RECURSIVE DecimalString(_)
DecimalString(n) ==
    IF n < 10 THEN <<n>> ELSE Append(DecimalString(n \div 10), n % 10)

\* nonce = workerId[0] + (iteration * workerId[1]).toString(): a number plus
\* a string, which JavaScript evaluates as the concatenation of the number's
\* decimal string and the string.
SequentialNonce(workerId, iteration) ==
    DecimalString(workerId[1]) \o DecimalString(iteration * workerId[2])

\* A worker started with method "sequential": workerId = [i, THREAD_COUNT]
\* for an i of the spawn loop, iteration = 1.
NonceInit ==
    /\ NoProcess
    /\ \E threads \in 1..MaxSeqThreads : \E i \in 1..(Max(1, threads) - 1) :
          fnInput = [workerId |-> <<i, Max(1, threads)>>, iteration |-> 1]
    /\ fnOutput = <<>>

\* One iteration of the worker's loop under method "sequential": the nonce
\* is produced from `iteration`, which is then incremented.
NextNonce ==
    /\ fnInput.iteration <= MaxIteration
    /\ fnOutput' = <<SequentialNonce(fnInput.workerId, fnInput.iteration)>>
    /\ fnInput' = [fnInput EXCEPT !.iteration = @ + 1]
    /\ UNCHANGED minerVars

NonceNext == NextNonce

NonceSpec == NonceInit /\ [][NonceNext]_vars

\* --------------------------------------------------- the progress reports
\* Number of loop iterations of a worker explored for the progress reports.
MaxScans == 2

\* The sum of f[w] over the workers in S.
RECURSIVE SumOver(_, _)
SumOver(f, S) == IF S = {} THEN 0
                 ELSE LET w == CHOOSE x \in S : TRUE
                      IN  f[w] + SumOver(f, S \ {w})

\* The workers' loop counters (let iteration = 1), the INTERVAL-UPDATE
\* messages posted and not yet handled, the coordinator's hashCount
\* (let hashCount = 0), and for each worker the number of candidates it had
\* hashed when it posted the report the coordinator handled last.
ProgressInit ==
    /\ NoProcess
    /\ fnInput = [iteration |-> [w \in WorkerIds |-> 1],
                  posted |-> [w \in WorkerIds |-> <<>>],
                  latest |-> [w \in WorkerIds |-> 0]]
    /\ fnOutput = <<0>>

\* { type: "INTERVAL-UPDATE", count: iteration }; `hashed` records the number
\* of candidates the worker has hashed when it posts the message.
IntervalUpdate(iteration, hashed) == [count |-> iteration, hashed |-> hashed]

\* One iteration of the worker's loop, from the progress report on: the
\* candidate of this iteration has been hashed (the iteration-th since the
\* worker started); `due` is Date.now() - lastUpdate > updateInterval * 0.95.
WorkerCount(w, due) ==
    /\ fnInput.iteration[w] <= MaxScans
    /\ LET iteration == fnInput.iteration[w]
           hashed == fnInput.iteration[w]
       IN  fnInput' =
              [fnInput EXCEPT
                  !.posted[w] =
                      IF due THEN Append(@, IntervalUpdate(iteration, hashed))
                      ELSE @,
                  !.iteration[w] = @ + 1]
    /\ UNCHANGED <<fnOutput, minerVars>>

\* worker.on("message") for an INTERVAL-UPDATE: hashCount += data.count
ReceiveProgress(w) ==
    /\ fnInput.posted[w] # <<>>
    /\ LET data == Head(fnInput.posted[w]) IN
       /\ fnOutput' = <<fnOutput[1] + data.count>>
       /\ fnInput' = [fnInput EXCEPT !.posted[w] = Tail(@),
                                     !.latest[w] = data.hashed]
    /\ UNCHANGED minerVars

ProgressNext ==
    \/ \E w \in WorkerIds : \E due \in BOOLEAN : WorkerCount(w, due)
    \/ \E w \in WorkerIds : ReceiveProgress(w)

ProgressSpec == ProgressInit /\ [][ProgressNext]_vars

\* ------------------------------------------------ the ledger line as text
\* Longest previous hash, pseudonym and nonce written, in characters.
MaxStrLen == 2

\* The characters strings are made of.
Chars == {"a", "b"}

\* The strings of lo..hi characters.
Strings(lo, hi) == UNION {[1..n -> Chars] : n \in lo..hi}

\* lastLine.split(argv.pseudonym)[1]
SplitNonce(lastLine, pseudonym) == Split(lastLine, pseudonym)[2]

\* A block to be logged: its (non-empty) previous hash, the (non-empty)
\* pseudonym and its nonce.
LineInit ==
    /\ NoProcess
    /\ fnInput \in [previous : Strings(1, MaxStrLen),
                    pseudonym : Strings(1, MaxStrLen),
                    nonce : Strings(0, MaxStrLen)]
    /\ fnOutput = <<>>

\* addBlock: update_log(`${block.previous}${block.pseudonym}${block.nonce}`)
WriteLine ==
    /\ fnOutput = <<>>
    /\ fnOutput' = <<LineText(fnInput.previous, fnInput.pseudonym,
                              fnInput.nonce)>>
    /\ UNCHANGED <<fnInput, minerVars>>

\* The next start-up: lastNonce is recovered from the file's last line.
ReadLastNonce ==
    /\ Len(fnOutput) = 1
    /\ fnOutput' = Append(fnOutput, SplitNonce(fnOutput[1], fnInput.pseudonym))
    /\ UNCHANGED <<fnInput, minerVars>>

LineNext == WriteLine \/ ReadLastNonce

LineSpec == LineInit /\ [][LineNext]_vars

\* ------------------------------------------- the submission of a block
\* The characters of a pseudonym given on the command line: a letter and
\* the blank.
PseudonymChars == {"a", " "}

\* The pseudonyms of 1..MaxStrLen characters with a letter in them.
Pseudonyms ==
    {s \in UNION {[1..n -> PseudonymChars] : n \in 1..MaxStrLen} :
        \E i \in 1..Len(s) : s[i] # " "}

\* Characters String.prototype.trim() removes.
IsWhiteSpace(c) == c = " "

\* String.prototype.trim(): s without its leading and trailing white space.
Trim(s) ==
    LET kept == {i \in 1..Len(s) : ~IsWhiteSpace(s[i])} IN
    IF kept = {} THEN <<>>
    ELSE LET first == CHOOSE i \in kept : \A j \in kept : i <= j
             last == CHOOSE i \in kept : \A j \in kept : j <= i
         IN  SubSeq(s, first, last)

\* addBlock: the inputPreviousHash, inputMiner and inputNonce fields.
FormData(block) ==
    <<Trim(block.previous), Trim(block.pseudonym), Trim(block.nonce)>>

\* The Block a worker posts, with the text it hashed (block.sha256 is the
\* digest of block.raw).
TextBlock(previous, pseudonym, nonce, difficulty) ==
    [previous |-> previous, pseudonym |-> pseudonym, nonce |-> nonce,
     difficulty |-> difficulty, raw |-> Raw(previous, pseudonym, nonce)]

\* The main thread started with argv.pseudonym, a starting hash of
\* difficulty 0 and a ceiling, no ledger file, and two workers; fnInput is
\* the candidate of worker 1 that improves on its local best.  The state:
\* `workers` the workers that have posted their UPDATE, `toMain` the blocks
\* posted and not handled, `forms` the forms sent to the service and
\* `submitted` their blocks, `fetching`, `reading`, `resuming` the calls of
\* addBlock at await fetch, at await response.text() and settled, `file`
\* the lines of the ledger file and `accepted` the blocks of its block
\* lines, `lastDifficulty` lastBlock.difficulty, `exit` process.exit(0).
SubmitInit ==
    /\ NoProcess
    /\ fnInput \in [previous : Strings(1, MaxStrLen),
                    pseudonym : Pseudonyms,
                    nonce : Strings(1, MaxStrLen),
                    difficulty : 2..MaxDifficulty,
                    ceiling : Ceilings]
    /\ fnOutput = <<[workers |-> {}, toMain |-> {}, forms |-> <<>>,
                     submitted |-> <<>>, fetching |-> <<>>, reading |-> <<>>,
                     resuming |-> <<>>, file |-> <<fnInput.pseudonym>>,
                     accepted |-> <<>>, lastDifficulty |-> 0,
                     exit |-> FALSE]>>

\* Worker w hashes a candidate and posts the UPDATE with its block.
PostBlock(w, block) ==
    /\ ~fnOutput[1].exit
    /\ w \notin fnOutput[1].workers
    /\ fnOutput' = <<[fnOutput[1] EXCEPT !.workers = @ \cup {w},
                                         !.toMain = @ \cup {block}]>>
    /\ UNCHANGED <<fnInput, minerVars>>

\* Worker 1 posts the candidate.
PostCandidate ==
    PostBlock(1, TextBlock(fnInput.previous, fnInput.pseudonym, fnInput.nonce,
                           fnInput.difficulty))

\* Worker 2, started with the same previous hash and pseudonym, posts a
\* candidate with another nonce.
PostOther(nonce, difficulty) ==
    /\ nonce # fnInput.nonce
    /\ PostBlock(2, TextBlock(fnInput.previous, fnInput.pseudonym, nonce,
                              difficulty))

\* worker.on("message") for an UPDATE, up to await fetch in addBlock: a
\* block above the pointer's difficulty has its form sent.
SendForm(block) ==
    LET st == fnOutput[1] IN
    /\ ~st.exit
    /\ st.resuming = <<>>
    /\ block \in st.toMain
    /\ fnOutput' =
          <<IF block.difficulty > st.lastDifficulty
            THEN [st EXCEPT !.toMain = @ \ {block},
                            !.forms = Append(@, FormData(block)),
                            !.submitted = Append(@, block),
                            !.fetching = Append(@, block)]
            ELSE [st EXCEPT !.toMain = @ \ {block}]>>
    /\ UNCHANGED <<fnInput, minerVars>>

\* fetch() of the i-th form returns: with response.ok addBlock awaits
\* response.text(), otherwise its catch runs and it settles.
FormFetched(i, ok) ==
    LET st == fnOutput[1] IN
    /\ ~st.exit
    /\ i \in 1..Len(st.fetching)
    /\ fnOutput' =
          <<IF ok
            THEN [st EXCEPT !.fetching = RemoveAt(@, i),
                            !.reading = Append(@, st.fetching[i])]
            ELSE [st EXCEPT !.fetching = RemoveAt(@, i),
                            !.resuming = Append(@, <<st.fetching[i],
                                                     "TransportError">>)]>>
    /\ UNCHANGED <<fnInput, minerVars>>

\* response.text() of the i-th answer settles: on "Congratulations" the
\* block becomes the pointer and its line is appended to the ledger file.
AddBlockAnswered(i, outcome) ==
    LET st == fnOutput[1] IN
    /\ ~st.exit
    /\ i \in 1..Len(st.reading)
    /\ LET block == st.reading[i] IN
       fnOutput' =
          <<IF IsAccepted(outcome)
            THEN [st EXCEPT !.reading = RemoveAt(@, i),
                            !.resuming = Append(@, <<block, outcome>>),
                            !.lastDifficulty = block.difficulty,
                            !.file = Append(@, LineText(block.previous,
                                                        block.pseudonym,
                                                        block.nonce)),
                            !.accepted = Append(@, block)]
            ELSE [st EXCEPT !.reading = RemoveAt(@, i),
                            !.resuming = Append(@, <<block, outcome>>)]>>
    /\ UNCHANGED <<fnInput, minerVars>>

\* The handler resumes after await addBlock(block): the ceiling test.
HandlerResumes(i) ==
    LET st == fnOutput[1] IN
    /\ ~st.exit
    /\ i \in 1..Len(st.resuming)
    /\ ResumesFirst(st.resuming, i)
    /\ fnOutput' =
          <<[st EXCEPT !.resuming = RemoveAt(@, i),
                       !.exit = st.resuming[i][1].difficulty
                                    >= fnInput.ceiling]>>
    /\ UNCHANGED <<fnInput, minerVars>>

SubmitNext ==
    \/ PostCandidate
    \/ \E nonce \in Strings(1, 1), difficulty \in 2..MaxDifficulty :
          PostOther(nonce, difficulty)
    \/ \E block \in fnOutput[1].toMain : SendForm(block)
    \/ \E i \in 1..2 : \E ok \in BOOLEAN : FormFetched(i, ok)
    \/ \E i \in 1..2 : \E outcome \in Outcomes : AddBlockAnswered(i, outcome)
    \/ \E i \in 1..2 : HandlerResumes(i)

SubmitSpec == SubmitInit /\ [][SubmitNext]_vars

\* ======================================================================
\* The fixed-range miner of src/main.ts
\* ======================================================================
\* Largest number of CPUs (cpus().length) the fixed-range miner is started on.
MaxCpus == 15

\* const MAX_NONCE = 100000000n
MAX_NONCE == 100000000

\* const THREAD_COUNT = Math.max(1, cpus().length - 1)
FixedThreadCount(cpus) == Max(1, cpus - 1)

\* const chunkSize = MAX_NONCE / BigInt(THREAD_COUNT): BigInt division
\* truncates.
ChunkSize(threads) == MAX_NONCE \div threads

\* workerData of the i-th worker of the spawn loop.
FixedWorkerData(i, threads) ==
    [chunkStart |-> i * ChunkSize(threads),
     chunkEnd |-> (i + 1) * ChunkSize(threads)]

\* let nonce = chunkStart; while (nonce < chunkEnd) { ...; nonce++ }: the
\* nonces the worker's loop hashes when no nonce of its range qualifies.
Scans(data, nonce) == data.chunkStart <= nonce /\ nonce < data.chunkEnd

\* The main thread before its spawn loop: i = 0, no worker started.
RangeInit ==
    /\ NoProcess
    /\ \E cpus \in 1..MaxCpus :
          fnInput = [threads |-> FixedThreadCount(cpus), i |-> 0]
    /\ fnOutput = <<>>

\* One iteration of for (let i = 0; i < THREAD_COUNT; i++): a worker is
\* started with its workerData.
StartFixedWorker ==
    /\ fnInput.i < fnInput.threads
    /\ fnOutput' = Append(fnOutput, FixedWorkerData(fnInput.i, fnInput.threads))
    /\ fnInput' = [fnInput EXCEPT !.i = @ + 1]
    /\ UNCHANGED minerVars

RangeNext == StartFixedWorker

RangeSpec == RangeInit /\ [][RangeNext]_vars

\* ------------------------------------ the workers and the main thread
\* Largest number of CPUs the pool's message handling is explored on.
MaxPoolCpus == 4

\* const REQUIRED_DIFFICULTY = 45
REQUIRED_DIFFICULTY == 45

\* The worker indices of for (let i = 0; i < THREAD_COUNT; i++).
FixedWorkers(threads) == 0..(threads - 1)

\* The nonces of a worker's range at which a qualifying hash is tried: the
\* first and the last nonce its loop reaches.
FoundNonces(data) == {data.chunkStart, data.chunkEnd - 1}

\* leadingZeros of a hash with leadingZeros >= difficulty.
QualifyingDifficulties == {REQUIRED_DIFFICULTY, REQUIRED_DIFFICULTY + 1}

\* The main thread after its spawn loop: every worker is scanning its range,
\* completed = 0, found = false, no message posted.  `port[i]` holds worker
\* i's messages not yet handled; fnOutput records result.json (`written`),
\* the "No valid hash found" lines logged (`noValid`), the result messages
\* posted (`reported`) and handled (`handled`).
PoolInit ==
    /\ NoProcess
    /\ \E cpus \in 1..MaxPoolCpus :
          LET threads == FixedThreadCount(cpus) IN
          fnInput = [threads |-> threads,
                     pc |-> [i \in FixedWorkers(threads) |-> "scanning"],
                     port |-> [i \in FixedWorkers(threads) |-> <<>>],
                     completed |-> 0,
                     found |-> FALSE,
                     exited |-> FALSE]
    /\ fnOutput = <<[written |-> <<>>, noValid |-> 0,
                     reported |-> <<>>, handled |-> <<>>]>>

\* The worker's loop reaches a nonce with leadingZeros >= difficulty: it
\* posts { nonce, hash, difficulty: leadingZeros } and calls process.exit(0),
\* which ends the worker thread; `delivered` is whether the message posted
\* right before the exit reaches the main thread.
WorkerFound(i, nonce, leadingZeros, delivered) ==
    /\ ~fnInput.exited
    /\ fnInput.pc[i] = "scanning"
    /\ Scans(FixedWorkerData(i, fnInput.threads), nonce)
    /\ leadingZeros >= REQUIRED_DIFFICULTY
    /\ LET result == [type |-> "result", worker |-> i, nonce |-> nonce,
                      difficulty |-> leadingZeros]
       IN  /\ fnInput' = [fnInput EXCEPT
                             !.pc[i] = "exited",
                             !.port[i] = IF delivered THEN Append(@, result)
                                         ELSE @]
           /\ fnOutput' = <<[fnOutput[1] EXCEPT
                                !.reported = Append(@, result)]>>
    /\ UNCHANGED minerVars

\* The worker's loop reaches chunkEnd: parentPort?.postMessage("done").
WorkerDone(i) ==
    /\ ~fnInput.exited
    /\ fnInput.pc[i] = "scanning"
    /\ fnInput' = [fnInput EXCEPT
                      !.pc[i] = "done",
                      !.port[i] = Append(@, [type |-> "done"])]
    /\ UNCHANGED <<fnOutput, minerVars>>

\* Mutant of AllCompleted: one finished worker is enough.
SomeCompleted(completed, threads) == completed >= 1

\* completed === THREAD_COUNT
AllCompleted(completed, threads) == completed = threads

\* worker.on("message") for worker i's next message.  The result written to
\* result.json has nonce: Number(result.nonce), which is exact for a nonce
\* below MAX_NONCE.
MainHandle(i) ==
    /\ ~fnInput.exited
    /\ fnInput.port[i] # <<>>
    /\ LET result == Head(fnInput.port[i])
           completed == IF result.type = "done" THEN fnInput.completed + 1
                        ELSE fnInput.completed
       IN  IF result.type = "result" /\ ~fnInput.found
           THEN /\ fnInput' = [fnInput EXCEPT !.port[i] = Tail(@),
                                              !.completed = completed,
                                              !.found = TRUE,
                                              !.exited = TRUE]
                /\ fnOutput' =
                     <<[fnOutput[1] EXCEPT
                           !.written = Append(@, [nonce |-> result.nonce,
                                                  difficulty |->
                                                      result.difficulty]),
                           !.handled = Append(@, result)]>>
           ELSE /\ fnInput' = [fnInput EXCEPT !.port[i] = Tail(@),
                                              !.completed = completed]
                /\ fnOutput' =
                     <<[fnOutput[1] EXCEPT
                           !.noValid =
                               IF AllCompleted(completed, fnInput.threads)
                                     /\ ~fnInput.found
                               THEN @ + 1 ELSE @,
                           !.handled =
                               IF result.type = "result"
                               THEN Append(@, result) ELSE @]>>
    /\ UNCHANGED minerVars

PoolNext ==
    \/ \E i \in FixedWorkers(fnInput.threads) :
          \E nonce \in FoundNonces(FixedWorkerData(i, fnInput.threads)) :
          \E leadingZeros \in QualifyingDifficulties :
          \E delivered \in BOOLEAN :
             WorkerFound(i, nonce, leadingZeros, delivered)
    \/ \E i \in FixedWorkers(fnInput.threads) : WorkerDone(i)
    \/ \E i \in FixedWorkers(fnInput.threads) : MainHandle(i)

PoolSpec == PoolInit /\ [][PoolNext]_vars

\* ======================================================================
\* The chunked range miner of src/src/index.ts
\* ======================================================================
\* Longest range (end - start) given to a worker, largest chunkSize and
\* largest workerId explored.
MaxRangeLen == 3
MaxChunkSize == 2
MaxWorkerId == 1

\* const d = 45: the target difficulty.
TargetD == 45

\* if (done % 100000n === 0n): a progress message every 100000 nonces.
ProgressEvery == 100000

\* getNonceDifficulty(i, prev).difficulty: the difficulties a nonce is given.
NonceDifficulties == {0, TargetD - 1, TargetD, TargetD + 1}

\* A worker's call findHashInRange(prev, d, start, end, workerId, chunkSize)
\* with start = workerId * chunksPerWorker and end = start + chunksPerWorker,
\* before its first statement has run: callList = [], current.difficulty = 0,
\* done = 0, the loop variable i = start.  `evaluated` are the nonces hashed,
\* `posted` the messages posted to the parent.
ChunkInit ==
    /\ NoProcess
    /\ \E chunksPerWorker \in 1..MaxRangeLen, chunkSize \in 1..MaxChunkSize,
          workerId \in 0..MaxWorkerId :
          fnInput = [start |-> workerId * chunksPerWorker,
                     end |-> workerId * chunksPerWorker + chunksPerWorker,
                     chunkSize |-> chunkSize,
                     workerId |-> workerId,
                     pc |-> "range",
                     i |-> workerId * chunksPerWorker,
                     nonce |-> 0,
                     chunkEnd |-> 0,
                     current |-> [nonce |-> 0, difficulty |-> 0],
                     done |-> 0]
    /\ fnOutput = <<[evaluated |-> {}, posted |-> <<>>, callList |-> <<>>]>>

\* for (let i = start; i < end; i += chunkSize): the call
\* mineChunk(i, i + chunkSize) is entered.
EnterChunk ==
    /\ fnInput.pc = "range"
    /\ fnInput.i < fnInput.end
    /\ fnInput' = [fnInput EXCEPT !.pc = "chunk",
                                  !.nonce = fnInput.i,
                                  !.chunkEnd = fnInput.i + fnInput.chunkSize]
    /\ UNCHANGED <<fnOutput, minerVars>>

\* mineChunk returns current; its promise is pushed on callList and the
\* range loop advances by chunkSize.
ReturnChunk(current) ==
    [fnInput EXCEPT !.pc = "range", !.i = @ + fnInput.chunkSize,
                    !.current = current]

\* One iteration of mineChunk's for (let i = chunkStart; i < chunkEnd; i++)
\* on a nonce whose hash has the given difficulty.
EvaluateNonce(difficulty) ==
    /\ fnInput.pc = "chunk"
    /\ fnInput.nonce < fnInput.chunkEnd
    /\ LET hash == [nonce |-> fnInput.nonce, difficulty |-> difficulty]
           current == IF hash.difficulty > fnInput.current.difficulty
                      THEN hash ELSE fnInput.current
       IN  IF current.difficulty >= TargetD
           THEN /\ fnInput' = ReturnChunk(current)
                /\ fnOutput' =
                     <<[evaluated |-> fnOutput[1].evaluated \cup {hash.nonce},
                        posted |-> Append(fnOutput[1].posted,
                                         [event |-> "FOUND"]),
                        callList |-> Append(fnOutput[1].callList, current)]>>
           ELSE /\ fnInput' = [fnInput EXCEPT !.current = current,
                                              !.done = @ + 1,
                                              !.nonce = @ + 1]
                /\ fnOutput' =
                     <<[fnOutput[1] EXCEPT
                           !.evaluated = @ \cup {hash.nonce},
                           !.posted =
                               IF (fnInput.done + 1) % ProgressEvery = 0
                               THEN Append(@, [event |-> "progress"])
                               ELSE @]>>
    /\ UNCHANGED minerVars

\* mineChunk's loop ends at chunkEnd.
LeaveChunk ==
    /\ fnInput.pc = "chunk"
    /\ fnInput.nonce >= fnInput.chunkEnd
    /\ fnInput' = ReturnChunk(fnInput.current)
    /\ fnOutput' = <<[fnOutput[1] EXCEPT
                         !.callList = Append(@, fnInput.current)]>>
    /\ UNCHANGED minerVars

\* The range loop ends: return Promise.all(callList).
ReturnPointers ==
    /\ fnInput.pc = "range"
    /\ fnInput.i >= fnInput.end
    /\ fnInput' = [fnInput EXCEPT !.pc = "returned"]
    /\ UNCHANGED <<fnOutput, minerVars>>

ChunkNext ==
    \/ EnterChunk
    \/ \E difficulty \in NonceDifficulties : EvaluateNonce(difficulty)
    \/ LeaveChunk
    \/ ReturnPointers

ChunkSpec == ChunkInit /\ [][ChunkNext]_vars

\* ---------------------------------------- a worker and the main thread
\* pointers.reduce((prev, current) =>
\*     current.difficulty > prev.difficulty ? current : prev)
RECURSIVE Reduce(_, _)
Reduce(prev, pointers) ==
    IF pointers = <<>> THEN prev
    ELSE Reduce(IF Head(pointers).difficulty > prev.difficulty
                THEN Head(pointers) ELSE prev,
                Tail(pointers))

\* A worker thread the main thread has created (new Worker) and that has
\* not run yet, and the main thread waiting for the workers' exit: `handled`
\* counts the worker's messages the main thread has handled,
\* `workerSummaries` is <<workerSummaries[workerId]>> once it is set,
\* `terminated` is set by worker.terminate(), `exit` by the 'exit' event;
\* `numWorkers` is the size of the pool the worker belongs to.
FoundInit ==
    /\ NoProcess
    /\ \E chunksPerWorker \in 1..MaxRangeLen, chunkSize \in 1..MaxChunkSize,
          workerId \in 0..MaxWorkerId :
       \E numWorkers \in (workerId + 1)..(MaxWorkerId + 1) :
          fnInput = [numWorkers |-> numWorkers,
                     start |-> workerId * chunksPerWorker,
                     end |-> workerId * chunksPerWorker + chunksPerWorker,
                     chunkSize |-> chunkSize,
                     workerId |-> workerId,
                     pc |-> "created",
                     i |-> workerId * chunksPerWorker,
                     nonce |-> 0,
                     chunkEnd |-> 0,
                     current |-> [nonce |-> 0, difficulty |-> 0],
                     done |-> 0,
                     handled |-> 0,
                     workerSummaries |-> <<>>,
                     terminated |-> FALSE,
                     exit |-> FALSE]
    /\ fnOutput = <<[evaluated |-> {}, posted |-> <<>>, callList |-> <<>>]>>

\* The worker thread starts to run: it posts STARTED and calls
\* findHashInRange.
PostStarted ==
    /\ ~fnInput.terminated
    /\ fnInput.pc = "created"
    /\ fnOutput' = <<[fnOutput[1] EXCEPT
                         !.posted = Append(@, [event |-> "STARTED"])]>>
    /\ fnInput' = [fnInput EXCEPT !.pc = "range"]
    /\ UNCHANGED minerVars

\* A step of the worker thread inside findHashInRange; a terminated worker
\* runs no further statement.
WorkerStep ==
    /\ ~fnInput.terminated
    /\ ChunkNext

\* After await findHashInRange(...): the worker reduces the pointers and
\* posts FINISHED with the result.
PostFinished ==
    /\ ~fnInput.terminated
    /\ fnInput.pc = "returned"
    /\ LET pointers == fnOutput[1].callList
           hash == Reduce(Head(pointers), Tail(pointers))
       IN  fnOutput' = <<[fnOutput[1] EXCEPT
                             !.posted = Append(@, [event |-> "FINISHED",
                                                   data |-> hash])]>>
    /\ fnInput' = [fnInput EXCEPT !.pc = "finished"]
    /\ UNCHANGED minerVars

\* worker.on('message') of the main thread for the worker's next message:
\* FINISHED sets workerSummaries[i] and terminates the worker, FOUND
\* terminates every worker (this one too), progress and STARTED change
\* nothing here.
HandleMessage ==
    /\ ~fnInput.exit
    /\ fnInput.handled < Len(fnOutput[1].posted)
    /\ LET msg == fnOutput[1].posted[fnInput.handled + 1] IN
       fnInput' =
          [fnInput EXCEPT
              !.handled = @ + 1,
              !.workerSummaries =
                  IF msg.event = "FINISHED" THEN <<msg.data>> ELSE @,
              !.terminated = @ \/ msg.event \in {"FINISHED", "FOUND"}]
    /\ UNCHANGED <<fnOutput, minerVars>>

\* worker.on('message') of the main thread for the FOUND message of another
\* worker of the pool: workers.forEach((worker) => worker.terminate())
\* terminates this worker as well, wherever it is and whatever it has
\* posted.  (The other messages of other workers change nothing of this
\* worker.)
HandleFoundOfOther ==
    /\ ~fnInput.exit
    /\ fnInput.numWorkers > 1
    /\ fnInput' = [fnInput EXCEPT !.terminated = TRUE]
    /\ UNCHANGED <<fnOutput, minerVars>>

\* worker.on('exit'): the worker thread has ended, by terminate() or by
\* running to its end, and the messages it posted have been handled.
WorkerExit ==
    /\ ~fnInput.exit
    /\ fnInput.terminated \/ fnInput.pc = "finished"
    /\ fnInput.handled = Len(fnOutput[1].posted)
    /\ fnInput' = [fnInput EXCEPT !.exit = TRUE]
    /\ UNCHANGED <<fnOutput, minerVars>>

FoundNext ==
    \/ PostStarted
    \/ WorkerStep
    \/ PostFinished
    \/ HandleMessage
    \/ HandleFoundOfOther
    \/ WorkerExit

FoundSpec == FoundInit /\ [][FoundNext]_vars

\* ======================================================================
\* Properties
\* ======================================================================
\* The addBlock of a submission settled in this step.
Returns == Len(returned') > Len(returned)

\* The handler of the i-th settled submission resumed in this step.
Resumed(i) ==
    /\ i \in 1..Len(resuming)
    /\ Len(resuming') < Len(resuming)
    /\ resuming' = RemoveAt(resuming, i)

\* A submission (fetch) was started in this step.
Submits == Len(inflight') > Len(inflight)

\* The ledger lines of the blocks whose submission returned Accepted, in the
\* order the submissions returned.
RECURSIVE AcceptedLines(_)
AcceptedLines(rs) ==
    IF rs = <<>> THEN <<>>
    ELSE IF Head(rs)[2] = "Accepted"
         THEN <<BlockLine(Head(rs)[1])>> \o AcceptedLines(Tail(rs))
         ELSE AcceptedLines(Tail(rs))

\* C1: once the coordinator has accepted a block, an Update whose block was
\* computed against an earlier pointer (block.previous is not the hash of the
\* current pointer) is not submitted.
C1_StaleUpdateNotSubmitted ==
    [][(Len(ledger) > 1 /\ Submits)
          => Last(inflight').previous = lastBlock.sha256]_vars

\* C2: two Updates of different workers for the same epoch with difficulties
\* d1 < d2 are never both proposed: only the d2 block is submitted.
C2_OnlyHigherProposed ==
    ~ \E i, j \in 1..Len(inflight) :
          /\ inflight[i].previous = inflight[j].previous
          /\ inflight[i].nonce[1][1] # inflight[j].nonce[1][1]
          /\ inflight[i].difficulty < inflight[j].difficulty

\* C3: the ledger's block lines are exactly the blocks whose submission
\* returned Accepted, in the order they were accepted; no rejected or failed
\* proposal appears in it.
C3_LedgerIsAcceptedBlocks ==
    ledger = <<Pseudonym>> \o AcceptedLines(returned)

\* C3 witness: first proposal Rejected, second (higher) Accepted, and the
\* ledger holds the second block only.
C3_Witness ==
    /\ Len(returned) = 2
    /\ returned[1][2] = "Rejected"
    /\ returned[2][2] = "Accepted"
    /\ returned[2][1].difficulty > returned[1][1].difficulty
    /\ ledger = <<Pseudonym, BlockLine(returned[2][1])>>

\* C4: when a submission is rejected or fails, the pointer and the ledger are
\* unchanged, no pointer-change message is sent, the process keeps running
\* and the proposal is not outstanding again.
C4_FailedSubmissionKeepsEpoch ==
    [][/\ (Returns /\ Last(returned')[2] # "Accepted")
          => /\ lastBlock' = lastBlock
             /\ ledger' = ledger
             /\ toWorker' = toWorker
             /\ ~exited'
             /\ \A i \in 1..Len(inflight') :
                    inflight'[i] # Last(returned')[1]
             /\ \A i \in 1..Len(reading') :
                    reading'[i] # Last(returned')[1]
       /\ \A i \in 1..Len(resuming) :
             (Resumed(i) /\ resuming[i][2] # "Accepted")
                 => /\ ~exited'
                    /\ lastBlock' = lastBlock
                    /\ ledger' = ledger
                    /\ toWorker' = toWorker]_vars

\* C5: whenever no submission is outstanding and no pointer-change message
\* is undelivered, every running worker's previousHash is the hash of the
\* coordinator's pointer.
C5_WorkersOnAuthoritativeEpoch ==
    (inflight = <<>> /\ reading = <<>> /\ \A w \in WorkerIds : toWorker[w] = <<>>)
        => \A w \in WorkerIds :
              workerStatus[w] = "running" => previousHash[w] = lastBlock.sha256

\* C6: every pointer-change message posted to a running worker is
\* eventually received by it (unless the worker errors or the process ends).
C6_PointerChangeReceived ==
    \A w \in WorkerIds :
        [](toWorker[w] # <<>>
             => <>(toWorker[w] = <<>> \/ workerStatus[w] # "running" \/ exited))

\* C7: in the step in which a submission returns Accepted, the accepted
\* block becomes the pointer, exactly one ledger line is appended for it and
\* one pointer-change message carrying it is posted to every worker.
C7_AcceptedAdvancesAndBroadcasts ==
    [][(Returns /\ Last(returned')[2] = "Accepted")
          => LET block == Last(returned')[1] IN
             /\ lastBlock' = block
             /\ ledger' = Append(ledger, BlockLine(block))
             /\ \A w \in WorkerIds :
                    toWorker'[w] = Append(toWorker[w], block)]_vars

\* C7 witness: an accepted block is the pointer, is the ledger's last line
\* and is the last message posted to every worker.
C7_Witness ==
    /\ returned # <<>>
    /\ Last(returned)[2] = "Accepted"
    /\ lastBlock = Last(returned)[1]
    /\ Last(ledger) = BlockLine(lastBlock)
    /\ \A w \in WorkerIds : toWorker[w] # <<>> /\ Last(toWorker[w]) = lastBlock

\* C8: while a submission is outstanding, a worker that has received no
\* pointer change keeps its previousHash.
C8_WorkersKeepOldEpochWhilePending ==
    [][(inflight # <<>> \/ reading # <<>>)
          => \A w \in WorkerIds :
                Len(toWorker'[w]) >= Len(toWorker[w])
                    => previousHash'[w] = previousHash[w]]_vars

\* C9: when the process exits, the block that reached the ceiling (the block
\* of the handler that exits) was accepted and is the pointer and the last
\* line of the ledger.
C9_ExitOnlyWithResultPersisted ==
    [][(exited' /\ ~exited)
          => \E i \in 1..Len(resuming) :
                /\ Resumed(i)
                /\ resuming[i][2] = "Accepted"
                /\ resuming[i][1].difficulty >= maxDifficulty
                /\ lastBlock' = resuming[i][1]
                /\ Len(ledger') > 1
                /\ Last(ledger') = BlockLine(resuming[i][1])]_vars

\* C10: the process has exited only if a submitted Update had a difficulty
\* >= the ceiling or every worker has errored; with the default ceiling
\* (Infinity) and a healthy worker it has not exited.
C10_ExitOnlyAtCeilingOrPoolFailure ==
    /\ exited => \/ \E i \in 1..Len(returned) :
                       returned[i][1].difficulty >= maxDifficulty
                 \/ \A w \in WorkerIds : workerStatus[w] = "errored"
    /\ (maxDifficulty = Infinity
          /\ \E w \in WorkerIds : workerStatus[w] = "running") => ~exited

\* C10 witness: the process exited on a block at the ceiling, after a failed
\* submission of a block below the ceiling and one worker's error had left
\* it running.
C10_Witness ==
    /\ exited
    /\ Len(returned) = 2
    /\ returned[1][2] # "Accepted"
    /\ returned[1][1].difficulty < maxDifficulty
    /\ returned[2][1].difficulty >= maxDifficulty
    /\ \E w \in WorkerIds : workerStatus[w] = "errored"

\* C11: when every worker of the pool has errored the coordinator has
\* terminated the process (a single worker's error leaves it running).
C11_PoolFailureIsFatal ==
    (\A w \in WorkerIds : workerStatus[w] = "errored") => exited

\* C14: the coordinator starts exactly THREAD_COUNT workers.
C14_StartsThreadCountWorkers ==
    Cardinality(DOMAIN workerStatus) = THREAD_COUNT

\* C17: of two different blocks of the same epoch with equal difficulty, at
\* most one is ever accepted (made the pointer and logged).
C17_TieAtMostOneAccepted ==
    ~ \E i, j \in 1..Len(returned) :
          /\ i < j
          /\ returned[i][2] = "Accepted"
          /\ returned[j][2] = "Accepted"
          /\ returned[i][1] # returned[j][1]
          /\ returned[i][1].previous = returned[j][1].previous
          /\ returned[i][1].difficulty = returned[j][1].difficulty

\* C18: every block that replaces the pointer has a difficulty strictly
\* greater than that of the pointer it replaces.
C18_PointerDifficultyIncreases ==
    [][lastBlock' # lastBlock
          => lastBlock'.difficulty > lastBlock.difficulty]_vars

\* C19: at most one submission to the external ledger is outstanding.
C19_OneSubmissionOutstanding == Len(inflight) + Len(reading) <= 1

\* C20: when the process has exited, no submission is outstanding.
C20_NothingOutstandingAtExit == exited => (inflight = <<>> /\ reading = <<>>)

\* The number of zero bits before the first one bit, most significant bit
\* first, and the full width when there is no one bit.
LeadingZeroBits(bits) ==
    IF \A i \in 1..Len(bits) : bits[i] = 0 THEN Len(bits)
    ELSE Cardinality({i \in 1..Len(bits) : \A j \in 1..i : bits[j] = 0})

\* C12: the computed difficulty of a W-bit digest is its number of leading
\* zero bits, and W when the digest is entirely zero.
C12_DifficultyIsLeadingZeroBits ==
    fnOutput # <<>> => fnOutput[1] = LeadingZeroBits(HexToBits(fnInput.sha))

\* The iteration whose nonce is in fnOutput.
ProducedAt == fnInput.iteration - 1

\* C13: the nonce a sequential worker produces at iteration k is the stride
\* value workerId + k * workerCount, and no other worker of the pool
\* produces the same nonce token at any iteration.
C13_SequentialStrideDisjoint ==
    fnOutput # <<>> =>
        LET id == fnInput.workerId[1]
            count == fnInput.workerId[2]
        IN  /\ fnOutput[1] = DecimalString(id + ProducedAt * count)
            /\ \A other \in (1..(count - 1)) \ {id} :
                   \A k \in 1..MaxIteration :
                       SequentialNonce(<<other, count>>, k) # fnOutput[1]

\* C16: a single sequential worker evaluates the nonces 0, 1, 2, ... in
\* increasing order: its n-th candidate is the nonce n - 1.
C16_SingleWorkerScansFromZero ==
    (fnOutput # <<>> /\ fnInput.workerId[2] = 2)
        => fnOutput[1] = DecimalString(ProducedAt - 1)

\* The hash of the block recorded by the ledger's last line.
LastRecordedHash == Sha256(Last(ledger))

\* C15: at start-up with a ledger of N >= 1 recorded blocks, the pointer's
\* hash and the previous hash of every worker are the hash of the last
\* recorded block, and the pointer's difficulty is that hash's leading-zero
\* count.
C15_ResumesFromLedgerTail ==
    (returned = <<>> /\ inflight = <<>> /\ reading = <<>> /\ UpdatesPosted = 0) =>
        /\ lastBlock.sha256 = LastRecordedHash
        /\ lastBlock.difficulty = LeadingZeros(LastRecordedHash)
        /\ \A w \in WorkerIds : previousHash[w] = LastRecordedHash

\* The hash of the block a ledger line records.
LineHash(line) == Sha256(line)

\* The previousHash a ledger line records: its text before the pseudonym.
LinePrevious(line) == Split(line, Pseudonym)[1]

\* C21: the ledger records blocks in chain order: the first block line of
\* the run has the starting hash as its previousHash, every later block line
\* has the hash of the block of the line before it as its previousHash, and
\* no two block lines share a previousHash.
C21_LedgerInChainOrder ==
    /\ Len(ledger) > 1 => LinePrevious(ledger[2]) = startHash
    /\ \A i \in 2..(Len(ledger) - 1) :
           LinePrevious(ledger[i + 1]) = LineHash(ledger[i])
    /\ \A i, j \in 2..Len(ledger) :
           i # j => LinePrevious(ledger[i]) # LinePrevious(ledger[j])

\* C23: once the handler of every settled submission has resumed, blockCount
\* is the number of block lines in the ledger.
C23_BlockCountIsLedgerBlocks ==
    resuming = <<>> => blockCount = Len(ledger) - 1

\* C24: a worker that has reported nothing yet reports every candidate whose
\* difficulty is strictly greater than the difficulty D of the pointer it
\* was started with, in particular a candidate of difficulty D + 1.
C24_ReportsAbovePointer ==
    \A w \in WorkerIds :
        (workerStatus[w] = "running" /\ previousHash[w] = startHash)
            => \A nonce \in Nonces(w) :
                   LET block == MakeBlock(previousHash[w], Pseudonym, nonce)
                   IN  block.difficulty > LeadingZeros(startHash)
                           => Improves(w, block)

\* C25: a step in which a worker's local best changes raises it and posts
\* exactly one Update, which carries the candidate's nonce, its hash and the
\* new local best as difficulty; a step that posts an Update of a worker
\* raises its local best; so the local best never decreases and the
\* difficulties of a worker's Updates are strictly increasing.
C25_LocalBestReportedOnce ==
    [][\A w \in WorkerIds :
          /\ bestDifficulty'[w] >= bestDifficulty[w]
          /\ (bestDifficulty'[w] # bestDifficulty[w]
                 \/ Len(toMain'[w]) > Len(toMain[w]))
              => /\ Len(toMain'[w]) = Len(toMain[w]) + 1
                 /\ SubSeq(toMain'[w], 1, Len(toMain[w])) = toMain[w]
                 /\ LET block == Last(toMain'[w]) IN
                    /\ block.difficulty = bestDifficulty'[w]
                    /\ block.difficulty > bestDifficulty[w]
                    /\ block.previous = previousHash[w]
                    /\ block.sha256 =
                           Sha256(Raw(block.previous, block.pseudonym,
                                      block.nonce))
                    /\ block.difficulty = LeadingZeros(block.sha256)]_vars

\* C25 witness: a worker has posted two Updates, the second with a greater
\* difficulty than the first, and its local best is the second's difficulty.
C25_Witness ==
    \E w \in WorkerIds :
        /\ Len(toMain[w]) = 2
        /\ toMain[w][1].difficulty < toMain[w][2].difficulty
        /\ bestDifficulty[w] = toMain[w][2].difficulty

\* C26: a running worker of a live process always has a next iteration of
\* its scan loop, also when its local best has met or exceeded the ceiling
\* (up to the number of Updates explored).
C26_WorkerNeverStopsOnItsOwn ==
    \A w \in WorkerIds :
        (workerStatus[w] = "running" /\ ~exited /\ UpdatesPosted < MaxUpdates)
            => ENABLED (\E nonce \in Nonces(w) : WorkerScan(w, nonce))

\* C26 witness: a running worker whose local best has reached the ceiling
\* while the process is alive, and whose loop has a next iteration.
C26_Witness ==
    \E w \in WorkerIds :
        /\ workerStatus[w] = "running"
        /\ ~exited
        /\ previousHash[w] # startHash
        /\ LeadingZeros(previousHash[w]) >= maxDifficulty
        /\ bestDifficulty[w] >= maxDifficulty
        /\ ENABLED (\E nonce \in Nonces(w) : WorkerScan(w, nonce))

\* The coordinator's cumulative throughput counter.
hashCount == fnOutput[1]

\* C22: the coordinator's hashCount is the total number of candidates the
\* workers had hashed at their latest handled reports, and never exceeds the
\* number of candidates the workers have hashed.
C22_ProgressCountsCandidates ==
    /\ hashCount = SumOver(fnInput.latest, WorkerIds)
    /\ hashCount <= SumOver([w \in WorkerIds |-> fnInput.iteration[w] - 1],
                            WorkerIds)

\* C27: the nonce recovered from a written block line is the nonce that was
\* written, whatever the previous hash, the pseudonym and the nonce are.
C27_LineRoundTrip ==
    Len(fnOutput) = 2 => fnOutput[2] = fnInput.nonce

\* C28: for an accepted block, the (previousHash, identity, nonce) sent to
\* the submission service are the three values the worker concatenated and
\* hashed, and the line appended to the ledger is that concatenation.
C28_SubmittedIsHashed ==
    LET st == fnOutput[1] IN
    \A k \in 1..Len(st.accepted) :
        LET block == st.accepted[k] IN
        /\ \A n \in 1..Len(st.submitted) :
               st.submitted[n] = block
                   => st.forms[n] =
                          <<block.previous, block.pseudonym, block.nonce>>
        /\ st.file[k + 1] = block.raw

\* The nonces at which the number of workers scanning a nonce can change:
\* the ends of the nonce space and of every worker's range.
BoundaryNonces ==
    {n \in {0, MAX_NONCE - 1}
            \cup UNION {{fnOutput[k].chunkStart, fnOutput[k].chunkEnd - 1,
                         fnOutput[k].chunkEnd} : k \in 1..Len(fnOutput)} :
        0 <= n /\ n < MAX_NONCE}

\* C29: once the T workers are started, their ranges are pairwise disjoint
\* and cover [0, MAX_NONCE): every nonce below MAX_NONCE is in the range of
\* exactly one worker.
C29_RangesPartitionNonceSpace ==
    fnInput.i = fnInput.threads =>
        \A n \in BoundaryNonces :
            Cardinality({k \in 1..Len(fnOutput) : Scans(fnOutput[k], n)}) = 1

\* C30: a worker evaluates only nonces of its range [start, end), whatever
\* the range length and the chunk size are.
C30_EvaluatesOnlyOwnRange ==
    \A n \in fnOutput[1].evaluated : fnInput.start <= n /\ n < fnInput.end

\* The FOUND messages the worker has posted.
FoundPosted ==
    {k \in 1..Len(fnOutput[1].posted) : fnOutput[1].posted[k].event = "FOUND"}

\* C31: when the worker has reached the target difficulty and has exited,
\* workerSummaries holds its pointer of difficulty >= d; and the worker
\* posts FOUND at most once.
C31_FoundPointerRecorded ==
    /\ (fnInput.exit /\ fnInput.current.difficulty >= TargetD)
          => /\ fnInput.workerSummaries # <<>>
             /\ fnInput.workerSummaries[1].difficulty >= TargetD
    /\ Cardinality(FoundPosted) <= 1

\* C32: result.json is written at most once, with the first result message
\* the main thread handles; "No valid hash found" is logged only when every
\* worker has finished its range and no worker ever reported a result.
C32_SingleWinner ==
    LET out == fnOutput[1] IN
    /\ Len(out.written) <= 1
    /\ out.written # <<>>
          => /\ out.handled # <<>>
             /\ out.written[1].nonce = out.handled[1].nonce
             /\ out.written[1].difficulty = out.handled[1].difficulty
    /\ out.handled # <<>> => out.written # <<>>
    /\ out.noValid > 0
          => /\ \A i \in FixedWorkers(fnInput.threads) : fnInput.pc[i] = "done"
             /\ out.reported = <<>>
             /\ out.written = <<>>

\* C32 witness: two workers have reported a qualifying nonce, the main
\* thread has handled one of the reports and written it, and the other is
\* left unhandled.
C32_Witness ==
    LET out == fnOutput[1] IN
    /\ Len(out.reported) >= 2
    /\ Len(out.written) = 1
    /\ fnInput.exited
    /\ \E i \in FixedWorkers(fnInput.threads) : fnInput.port[i] # <<>>

====
